---- MODULE Spec2Model ----
(***************************************************************************)
(* Model of newsletter.py: the two source adapters (fetch_newsapi_articles *)
(* and fetch_google_news_rss), the prompt formatter                        *)
(* (format_articles_for_prompt) and the driver (main) that sequences them  *)
(* with the summarization (generate_newsletter) and delivery (send_email)  *)
(* collaborators.  External services are the environment: each request is  *)
(* answered by a nondeterministically chosen response.                     *)
(***************************************************************************)
EXTENDS Integers, Sequences, FiniteSets, TLC

\* ------------------------------------------------------------------ bounds
\* Number of entries of KEYWORDS that the model iterates over (8 in the source).
NumKeywords == 2
\* Number of entries of the feed query list (3 in the source).
NumQueries == 2
\* Total number of items the external services return over one run.
MaxTotalItems == 3
\* Longest list handed to the formatter in SpecFormat.
MaxArticles == 40

\* ------------------------------------------------------- program constants
\* root.findall(".//item")[:5]
RssItemCap == 5
\* articles[:30]
PromptCap == 30

\* Python's None, and the empty dict used as a default by a.get("source", {}).
None == "<None>"
EmptyDict == [k \in {} |-> None]

\* The url / link values the services may put in an item.  "" is what
\* item.findtext("link", "") yields for an item without a link.
URLs == {"", "u1", "u2"}

KEYWORDS == 1..NumKeywords
queries == 1..NumQueries

Min(a, b) == IF a < b THEN a ELSE b

\* s[:n]
Take(s, n) == SubSeq(s, 1, Min(Len(s), n))

\* All url sequences of length at most n.
UrlSeqs(n) == UNION {[1..m -> URLs] : m \in 0..n}

\* The bodies of an error response: empty, or one item when n allows it.
ErrorBodies(n) == {s \in {<<>>, <<"u1">>} : Len(s) <= n}

VARIABLES
    pc,                \* position of main
    kwIdx,             \* position of "for keyword in KEYWORDS"
    articles,          \* fetch_newsapi_articles: local list articles
    newsapi_articles,  \* main: result of fetch_newsapi_articles()
    qIdx,              \* position of "for query in queries"
    feed_articles,     \* fetch_google_news_rss: local list articles
    rss_articles,      \* main: result of fetch_google_news_rss()
    all_articles,      \* main: newsapi_articles + rss_articles
    article_text,      \* generate_newsletter: format_articles_for_prompt(articles)
    newsletter_html,   \* main: result of generate_newsletter()
    kwCalls,           \* requests.get calls issued per keyword
    feedCalls,         \* requests.get calls issued per feed query
    genCalls,          \* client.messages.create calls issued
    sendCalls,         \* sg.send calls issued
    kwResp,            \* history of the search service's responses
    feedResp,          \* history of the feed service's responses
    fetched            \* number of items the services have returned so far

vars == <<pc, kwIdx, articles, newsapi_articles, qIdx, feed_articles,
          rss_articles, all_articles, article_text, newsletter_html,
          kwCalls, feedCalls, genCalls, sendCalls, kwResp, feedResp, fetched>>

\* ------------------------------------------------------------ the records
\* One element of the "articles" list of the search service's JSON.  origin
\* identifies the item: the service, the query it answered and its position
\* in that response.
NewsApiArticle(u, k, p) ==
    [source |-> [name |-> "NewsAPI source"], title |-> "title",
     publishedAt |-> "2026-01-01", description |-> "snippet",
     url |-> u, origin |-> <<"A", k, p>>]

\* The dict fetch_google_news_rss builds for one <item>.
RssArticle(u, q, p) ==
    [title |-> "title", url |-> u, publishedAt |-> "Thu, 01 Jan 2026",
     source |-> [name |-> "Google News"], description |-> "",
     origin |-> <<"B", q, p>>]

\* ----------------------------------------------- fetch_newsapi_articles
\* The loop "for a in articles" with its set seen and list unique.
RECURSIVE DedupeFrom(_, _, _)
DedupeFrom(arts, seen, unique) ==
    IF arts = <<>> THEN unique
    ELSE LET a == Head(arts) IN
         IF a.url \notin seen
         THEN DedupeFrom(Tail(arts), seen \cup {a.url}, Append(unique, a))
         ELSE DedupeFrom(Tail(arts), seen, unique)

Dedupe(arts) == DedupeFrom(arts, {}, <<>>)

\* The responses requests.get may produce for one keyword: a status with a
\* JSON body, or a network-level exception.
KeywordResponses ==
    LET left == MaxTotalItems - fetched IN
         {[kind |-> "status", status |-> 200, urls |-> s] : s \in UrlSeqs(left)}
    \cup {[kind |-> "status", status |-> 500, urls |-> s] : s \in ErrorBodies(left)}
    \cup {[kind |-> "exception", status |-> 0, urls |-> <<>>]}

\* Defective variant of ExtendOnSuccess: the status check is missing.
ExtendIgnoringStatus(arts, k, r) ==
    arts \o [p \in 1..Len(r.urls) |-> NewsApiArticle(r.urls[p], k, p)]

\* articles.extend(data.get("articles", [])) under "if response.status_code == 200"
ExtendOnSuccess(arts, k, r) ==
    IF r.status = 200
    THEN arts \o [p \in 1..Len(r.urls) |-> NewsApiArticle(r.urls[p], k, p)]
    ELSE arts

\* Defective variant of NextKeyword: a non-200 answer is asked for again.
RetryOnNonSuccess(k, r) == IF r.status = 200 THEN k + 1 ELSE k

\* The next iteration of "for keyword in KEYWORDS" after a response.
NextKeyword(k, r) == k + 1

\* ----------------------------------------------------------------- Init
Init ==
    /\ pc = "Idle"
    /\ kwIdx = 1
    /\ articles = <<>>
    /\ newsapi_articles = <<>>
    /\ qIdx = 1
    /\ feed_articles = <<>>
    /\ rss_articles = <<>>
    /\ all_articles = <<>>
    /\ article_text = <<>>
    /\ newsletter_html = None
    /\ kwCalls = [k \in KEYWORDS |-> 0]
    /\ feedCalls = [q \in queries |-> 0]
    /\ genCalls = 0
    /\ sendCalls = 0
    /\ kwResp = <<>>
    /\ feedResp = <<>>
    /\ fetched = 0

\* main() is entered and calls fetch_newsapi_articles().
Start ==
    /\ pc = "Idle"
    /\ pc' = "FetchingA"
    /\ UNCHANGED <<kwIdx, articles, newsapi_articles, qIdx, feed_articles,
                   rss_articles, all_articles, article_text, newsletter_html,
                   kwCalls, feedCalls, genCalls, sendCalls, kwResp, feedResp,
                   fetched>>

\* One iteration of "for keyword in KEYWORDS": the request and its handling.
\* A network-level exception of requests.get is not caught and leaves main.
\* The guards "< 3" here and below only keep the call counters finite.
FetchKeyword ==
    /\ pc = "FetchingA"
    /\ kwIdx \in KEYWORDS
    /\ kwCalls[kwIdx] < 3
    /\ \E r \in KeywordResponses :
         /\ kwCalls' = [kwCalls EXCEPT ![kwIdx] = @ + 1]
         /\ kwResp' = Append(kwResp, [kw |-> kwIdx, kind |-> r.kind,
                                      status |-> r.status, urls |-> r.urls])
         /\ fetched' = fetched + Len(r.urls)
         /\ IF r.kind = "exception"
            THEN /\ pc' = "Failed"
                 /\ UNCHANGED <<kwIdx, articles>>
            ELSE /\ articles' = ExtendOnSuccess(articles, kwIdx, r)
                 /\ kwIdx' = NextKeyword(kwIdx, r)
                 /\ pc' = pc
    /\ UNCHANGED <<newsapi_articles, qIdx, feed_articles, rss_articles,
                   all_articles, article_text, newsletter_html, feedCalls,
                   genCalls, sendCalls, feedResp>>

\* The deduplication pass and "return unique"; main then calls
\* fetch_google_news_rss().
ReturnNewsapi ==
    /\ pc = "FetchingA"
    /\ kwIdx \notin KEYWORDS
    /\ newsapi_articles' = Dedupe(articles)
    /\ articles' = <<>>
    /\ pc' = "FetchingB"
    /\ UNCHANGED <<kwIdx, qIdx, feed_articles, rss_articles, all_articles,
                   article_text, newsletter_html, kwCalls, feedCalls, genCalls,
                   sendCalls, kwResp, feedResp, fetched>>

\* ------------------------------------------------ fetch_google_news_rss
\* A feed document longer than the item cap.
LongDoc == [p \in 1..(RssItemCap + 1) |-> "u1"]

\* The responses requests.get may produce for one feed query: a 200 with a
\* document (the links of its <item> elements, in document order), a non-200
\* (its content is never read), a 200 whose content ET.fromstring cannot
\* parse, or a network-level exception.
FeedResponses ==
    LET left == MaxTotalItems - fetched IN
         {[kind |-> "status", status |-> 200, urls |-> s] : s \in UrlSeqs(left)}
    \cup {[kind |-> "status", status |-> 200, urls |-> LongDoc]}
    \cup {[kind |-> "status", status |-> 500, urls |-> <<>>]}
    \cup {[kind |-> "malformed", status |-> 200, urls |-> <<>>]}
    \cup {[kind |-> "exception", status |-> 0, urls |-> <<>>]}

\* "for item in root.findall(".//item")[:5]: articles.append({...})"
AppendItems(arts, q, r) ==
    LET items == Take(r.urls, RssItemCap) IN
    arts \o [p \in 1..Len(items) |-> RssArticle(items[p], q, p)]

\* One iteration of "for query in queries": the request and its handling.
\* ET.fromstring raises on an unparseable document; nothing catches it.
FetchQuery ==
    /\ pc = "FetchingB"
    /\ qIdx \in queries
    /\ feedCalls[qIdx] < 3
    /\ \E r \in FeedResponses :
         /\ feedCalls' = [feedCalls EXCEPT ![qIdx] = @ + 1]
         /\ feedResp' = Append(feedResp, [query |-> qIdx, kind |-> r.kind,
                                          status |-> r.status, urls |-> r.urls])
         /\ fetched' = IF r.urls = LongDoc THEN fetched
                       ELSE fetched + Len(r.urls)
         /\ IF r.kind = "exception"
            THEN /\ pc' = "Failed"
                 /\ UNCHANGED <<qIdx, feed_articles>>
            ELSE IF r.status = 200
            THEN IF r.kind = "malformed"
                 THEN /\ pc' = "Failed"
                      /\ UNCHANGED <<qIdx, feed_articles>>
                 ELSE /\ feed_articles' = AppendItems(feed_articles, qIdx, r)
                      /\ qIdx' = qIdx + 1
                      /\ pc' = pc
            ELSE /\ qIdx' = qIdx + 1
                 /\ pc' = pc
                 /\ UNCHANGED feed_articles
    /\ UNCHANGED <<kwIdx, articles, newsapi_articles, rss_articles,
                   all_articles, article_text, newsletter_html, kwCalls,
                   genCalls, sendCalls, kwResp>>

\* "return articles": the feed adapter returns its list as collected.
ReturnRss ==
    /\ pc = "FetchingB"
    /\ qIdx \notin queries
    /\ rss_articles' = feed_articles
    /\ feed_articles' = <<>>
    /\ pc' = "Aggregating"
    /\ UNCHANGED <<kwIdx, articles, newsapi_articles, qIdx, all_articles,
                   article_text, newsletter_html, kwCalls, feedCalls, genCalls,
                   sendCalls, kwResp, feedResp, fetched>>

\* ------------------------------------------- format_articles_for_prompt
\* a.get(key) and a.get(key, default)
Get(a, key) == IF key \in DOMAIN a THEN a[key] ELSE None
GetDefault(a, key, d) == IF key \in DOMAIN a THEN a[key] ELSE d

\* Python's "v or d" on a string or None.
Or(v, d) == IF v = None \/ v = "" THEN d ELSE v

\* The f-string of one article, as its parts.
Paragraph(i, a) ==
    [kind |-> "paragraph",
     index |-> i,
     source |-> Or(Get(GetDefault(a, "source", EmptyDict), "name"), "Unknown"),
     title |-> Or(Get(a, "title"), ""),
     date |-> Or(Get(a, "publishedAt"), ""),
     desc |-> Or(Get(a, "description"), ""),
     url |-> Or(Get(a, "url"), "")]

\* Defective variant of CapArticles: the slice is missing.
NoCap(arts) == arts

\* articles[:30]
CapArticles(arts) == Take(arts, PromptCap)

\* enumerate(articles[:30], 1): the list lines.
Lines(arts) ==
    LET capped == CapArticles(arts) IN
    [i \in 1..Len(capped) |-> Paragraph(i, capped[i])]

\* "\n\n".join(lines): the lines with a blank-line separator between them.
BlankLine == [kind |-> "blank line"]
Join(lines) ==
    [t \in 1..(2 * Len(lines) - 1) |->
        IF t % 2 = 1 THEN lines[(t + 1) \div 2] ELSE BlankLine]

format_articles_for_prompt(arts) == Join(Lines(arts))

\* -------------------------------------------------------------- main
\* Defective variant of Concatenate: the operands are swapped.
ConcatenateReversed(a, b) == b \o a

\* all_articles = newsapi_articles + rss_articles
Concatenate(a, b) == a \o b

\* Defective variant of Aggregate: the guard tests newsapi_articles.
AggregateGuardOnNewsapi ==
    /\ pc = "Aggregating"
    /\ all_articles' = Concatenate(newsapi_articles, rss_articles)
    /\ pc' = IF newsapi_articles = <<>> THEN "Aborted" ELSE "Formatting"
    /\ UNCHANGED <<kwIdx, articles, newsapi_articles, qIdx, feed_articles,
                   rss_articles, article_text, newsletter_html, kwCalls,
                   feedCalls, genCalls, sendCalls, kwResp, feedResp, fetched>>

\* The concatenation and the guard "if not all_articles: ... return".
Aggregate ==
    /\ pc = "Aggregating"
    /\ all_articles' = Concatenate(newsapi_articles, rss_articles)
    /\ pc' = IF all_articles' = <<>> THEN "Aborted" ELSE "Formatting"
    /\ UNCHANGED <<kwIdx, articles, newsapi_articles, qIdx, feed_articles,
                   rss_articles, article_text, newsletter_html, kwCalls,
                   feedCalls, genCalls, sendCalls, kwResp, feedResp, fetched>>

\* generate_newsletter: article_text = format_articles_for_prompt(articles)
Format ==
    /\ pc = "Formatting"
    /\ article_text' = format_articles_for_prompt(all_articles)
    /\ pc' = "Generating"
    /\ UNCHANGED <<kwIdx, articles, newsapi_articles, qIdx, feed_articles,
                   rss_articles, all_articles, newsletter_html, kwCalls,
                   feedCalls, genCalls, sendCalls, kwResp, feedResp, fetched>>

\* Defective variant of Generate: an exception of the call is swallowed and
\* main goes on to send_email.
GenerateSwallowingFailure ==
    /\ pc = "Generating"
    /\ genCalls < 3
    /\ genCalls' = genCalls + 1
    /\ \E ok \in BOOLEAN :
         /\ newsletter_html' = IF ok THEN "inner html" ELSE newsletter_html
         /\ pc' = "Sending"
    /\ UNCHANGED <<kwIdx, articles, newsapi_articles, qIdx, feed_articles,
                   rss_articles, all_articles, article_text, kwCalls,
                   feedCalls, sendCalls, kwResp, feedResp, fetched>>

\* generate_newsletter: client.messages.create(...) returns the text, or
\* raises and the exception leaves main.
Generate ==
    /\ pc = "Generating"
    /\ genCalls < 3
    /\ genCalls' = genCalls + 1
    /\ \E ok \in BOOLEAN :
         IF ok
         THEN /\ newsletter_html' = "inner html"
              /\ pc' = "Sending"
         ELSE /\ pc' = "Failed"
              /\ UNCHANGED newsletter_html
    /\ UNCHANGED <<kwIdx, articles, newsapi_articles, qIdx, feed_articles,
                   rss_articles, all_articles, article_text, kwCalls,
                   feedCalls, sendCalls, kwResp, feedResp, fetched>>

\* send_email: sg.send(message) returns a response, or raises and the
\* exception leaves main.
Send ==
    /\ pc = "Sending"
    /\ sendCalls < 3
    /\ sendCalls' = sendCalls + 1
    /\ \E ok \in BOOLEAN :
         pc' = IF ok THEN "Done" ELSE "Failed"
    /\ UNCHANGED <<kwIdx, articles, newsapi_articles, qIdx, feed_articles,
                   rss_articles, all_articles, article_text, newsletter_html,
                   kwCalls, feedCalls, genCalls, kwResp, feedResp, fetched>>

Next ==
    \/ Start
    \/ FetchKeyword
    \/ ReturnNewsapi
    \/ FetchQuery
    \/ ReturnRss
    \/ Aggregate
    \/ Format
    \/ Generate
    \/ Send

Spec == Init /\ [][Next]_vars

\* ------------------------------------------------ the formatter on its own
\* Three shapes of article dict: every field present, every field None, and
\* the optional keys absent.
ArticleShape(j) ==
    IF j = 0 THEN [source |-> [name |-> "Wired"], title |-> "title",
                   publishedAt |-> "2026-01-01", description |-> "snippet",
                   url |-> "u1"]
    ELSE IF j = 1 THEN [source |-> [name |-> None], title |-> None,
                        publishedAt |-> None, description |-> None,
                        url |-> "u2"]
    ELSE [url |-> None]

\* The input lists of the formatter: every length up to MaxArticles, the
\* shapes cycling from three starting points, so neighbours always differ.
FormatInputs ==
    {[i \in 1..n |-> ArticleShape((i + seed) % 3)] :
        n \in 0..MaxArticles, seed \in 0..2}

InitFormat ==
    /\ pc = "Formatting"
    /\ all_articles \in FormatInputs
    /\ kwIdx = 1
    /\ articles = <<>>
    /\ newsapi_articles = <<>>
    /\ qIdx = 1
    /\ feed_articles = <<>>
    /\ rss_articles = <<>>
    /\ article_text = <<>>
    /\ newsletter_html = None
    /\ kwCalls = [k \in KEYWORDS |-> 0]
    /\ feedCalls = [q \in queries |-> 0]
    /\ genCalls = 0
    /\ sendCalls = 0
    /\ kwResp = <<>>
    /\ feedResp = <<>>
    /\ fetched = 0

NextFormat == Format

SpecFormat == InitFormat /\ [][NextFormat]_vars

\* ------------------------------------------------------------ properties
\* Both adapters have returned to main.
AdaptersReturned ==
    /\ kwIdx \notin KEYWORDS
    /\ qIdx \notin queries
    /\ pc \notin {"Idle", "FetchingA", "FetchingB"}

\* main has computed all_articles.
Aggregated ==
    \/ pc \in {"Aborted", "Formatting", "Generating", "Sending", "Done"}
    \/ pc = "Failed" /\ genCalls > 0

\* fetch_newsapi_articles has returned its list.
NewsapiReturned == kwIdx \notin KEYWORDS /\ pc \notin {"Idle", "FetchingA"}

\* C1: the list main hands to generate_newsletter holds no two records with
\* the same non-empty url.
C1_NoDuplicateUrl ==
    Aggregated =>
        \A i, j \in 1..Len(all_articles) :
            (i < j /\ all_articles[i].url = all_articles[j].url)
                => all_articles[i].url = ""

\* The positions of s whose url does not occur at an earlier position.
FirstOccurrences(s) ==
    {i \in 1..Len(s) : \A j \in 1..(i - 1) : s[j].url # s[i].url}

\* The n-th smallest element of the set of positions K.
NthOf(K, n) == CHOOSE i \in K : Cardinality({j \in K : j <= i}) = n

\* C2: all_articles is the first-occurrence filter of the concatenation of
\* the adapters' outputs: exactly the records whose url was not seen earlier,
\* unmerged and in their original relative order.
C2_FirstOccurrenceFilter ==
    Aggregated =>
        LET s == newsapi_articles \o rss_articles
            K == FirstOccurrences(s)
        IN /\ Len(all_articles) = Cardinality(K)
           /\ \A n \in 1..Cardinality(K) :
                n <= Len(all_articles) => all_articles[n] = s[NthOf(K, n)]

\* C3: when both adapters return empty lists, neither collaborator is ever
\* called and main ends in Aborted, not in a failure; and Aborted is entered
\* only with an empty aggregated list.
C3_EmptyInputAbort ==
    /\ (AdaptersReturned /\ newsapi_articles = <<>> /\ rss_articles = <<>>)
          => /\ genCalls = 0
             /\ sendCalls = 0
             /\ pc \in {"Aggregating", "Aborted"}
    /\ pc = "Aborted"
          => /\ all_articles = <<>>
             /\ newsapi_articles = <<>>
             /\ rss_articles = <<>>

C3_Witness ==
    /\ pc = "Aborted"
    /\ Len(kwResp) = NumKeywords
    /\ Len(feedResp) = NumQueries

\* C4: a non-200 answer to a keyword raises nothing and the loop moves on to
\* the next keyword; when no request fails at the network level every keyword
\* is queried, and the list the adapter returns holds the url of every item
\* of every 200 answer and no item of any other answer.
C4_NonSuccessSkipped ==
    /\ \A n \in 1..Len(kwResp) :
          (kwResp[n].kind = "status" /\ kwResp[n].status # 200)
             => /\ kwIdx > kwResp[n].kw
                /\ ~(pc = "Failed" /\ kwIdx \in KEYWORDS /\ n = Len(kwResp))
    /\ NewsapiReturned
          => /\ \A k \in KEYWORDS : kwCalls[k] >= 1
             /\ \A n \in 1..Len(kwResp) :
                   kwResp[n].status = 200 =>
                      \A p \in 1..Len(kwResp[n].urls) :
                         \E i \in 1..Len(newsapi_articles) :
                            newsapi_articles[i].url = kwResp[n].urls[p]
             /\ \A i \in 1..Len(newsapi_articles) :
                   \E n \in 1..Len(kwResp) :
                      /\ kwResp[n].status = 200
                      /\ kwResp[n].kw = newsapi_articles[i].origin[2]
                      /\ newsapi_articles[i].origin[3] \in 1..Len(kwResp[n].urls)
                      /\ kwResp[n].urls[newsapi_articles[i].origin[3]]
                            = newsapi_articles[i].url

C4_Witness ==
    /\ pc = "FetchingB"
    /\ Len(kwResp) = NumKeywords
    /\ kwResp[1].status = 500
    /\ kwResp[1].urls # <<>>
    /\ kwResp[NumKeywords].status = 200
    /\ Len(newsapi_articles) = 2

\* C5: an unparseable feed document is skipped: main does not fail on it and
\* the loop moves on to the next feed query.
C5_MalformedFeedSkipped ==
    \A n \in 1..Len(feedResp) :
        feedResp[n].kind = "malformed"
            => /\ pc # "Failed"
               /\ qIdx > feedResp[n].query

IsParagraph(t) == t.kind = "paragraph"

\* C6: the text holds exactly min(n, 30) paragraphs, the k-th numbered k and
\* made of the fields of the k-th article.
C6_CapEnforcement ==
    pc = "Generating" =>
        LET paras == SelectSeq(article_text, IsParagraph) IN
        /\ Len(paras) = Min(Len(all_articles), PromptCap)
        /\ \A k \in 1..Len(paras) :
              /\ k <= Len(all_articles)
              /\ paras[k].index = k
              /\ paras[k].url = Or(Get(all_articles[k], "url"), "")
              /\ paras[k].title = Or(Get(all_articles[k], "title"), "")

C6_Witness ==
    /\ pc = "Generating"
    /\ Len(all_articles) = 40
    /\ Len(SelectSeq(article_text, IsParagraph)) = 30
    /\ article_text[59].index = 30

\* The item a precedes the item b: the search service before the feed
\* service, then by query position, then by position in the response.
OriginBefore(a, b) ==
    \/ a[1] = "A" /\ b[1] = "B"
    \/ /\ a[1] = b[1]
       /\ \/ a[2] < b[2]
          \/ a[2] = b[2] /\ a[3] < b[3]

\* C7: in all_articles the records of the keyword adapter precede those of
\* the feed adapter, and each adapter's records are in query order, then in
\* the order of the response.
C7_SourceOrder ==
    \A i, j \in 1..Len(all_articles) :
        i < j => OriginBefore(all_articles[i].origin, all_articles[j].origin)

C7_Witness ==
    /\ Len(all_articles) = 3
    /\ all_articles[1].origin = <<"A", 1, 1>>
    /\ all_articles[2].origin = <<"A", 1, 2>>
    /\ all_articles[3].origin[1] = "B"

\* C8: every request is issued at most once, and exactly once in a run that
\* reaches Done; the summarization and delivery calls likewise.
C8_NoRetries ==
    /\ \A k \in KEYWORDS : kwCalls[k] <= 1
    /\ \A q \in queries : feedCalls[q] <= 1
    /\ genCalls <= 1
    /\ sendCalls <= 1
    /\ pc = "Done"
          => /\ \A k \in KEYWORDS : kwCalls[k] = 1
             /\ \A q \in queries : feedCalls[q] = 1
             /\ genCalls = 1
             /\ sendCalls = 1

C8_Witness ==
    /\ pc = "Done"
    /\ \E n \in 1..Len(kwResp) : kwResp[n].status = 500
    /\ \E n \in 1..Len(feedResp) : feedResp[n].status = 500

\* C9: at most one record with an empty url is in all_articles.
C9_AtMostOneEmptyUrl ==
    Cardinality({i \in 1..Len(all_articles) : all_articles[i].url = ""}) <= 1

\* The position of a state of main in its sequence.
Rank(s) ==
    CASE s = "Idle" -> 0
      [] s = "FetchingA" -> 1
      [] s = "FetchingB" -> 2
      [] s = "Aggregating" -> 3
      [] s = "Formatting" -> 4
      [] s = "Generating" -> 5
      [] s = "Sending" -> 6
      [] OTHER -> 7

\* C10: main only moves forward and never returns to a state it has left; the
\* summarization call is made only after both adapters have returned, the
\* delivery call only after the summarization call has returned its text, and
\* a failed summarization call ends the run with no delivery call.
C10_ForwardOnly ==
    [][ /\ Rank(pc') >= Rank(pc)
        /\ Rank(pc) < 7
        /\ pc' = pc => pc \in {"FetchingA", "FetchingB"}
        /\ genCalls' # genCalls
              => pc = "Generating" /\ AdaptersReturned /\ sendCalls = 0
        /\ sendCalls' # sendCalls
              => pc = "Sending" /\ genCalls = 1 /\ newsletter_html # None
        /\ (pc = "Generating" /\ newsletter_html' = None)
              => pc' = "Failed" /\ sendCalls' = 0
      ]_vars

C10_Witness ==
    /\ pc = "Failed"
    /\ genCalls = 1
    /\ newsletter_html = None
    /\ sendCalls = 0
====
